---- MODULE Spec2Model ----
(***************************************************************************)
(* FeatureEngineer (finrl/preprocessing/preprocessors.py): construction,   *)
(* preprocess_data, __add_technical_indicator, __add_turbulence,           *)
(* __get_type_list and __calcualte_turbulence as a state machine.          *)
(*                                                                         *)
(* A table (pandas DataFrame) is a sequence of rows; a row is a record     *)
(* with its index label idx, its keys tic and date, and one cell per       *)
(* column.  A cell is a record [k, n, d]: k = "num" is the rational n/d,   *)
(* k = "nan" a missing value, k = "none" a column the table does not have. *)
(***************************************************************************)
EXTENDS Integers, Sequences, FiniteSets, TLC

\* Warm-up length of __calcualte_turbulence.  The source sets start = 252
\* (line 133); the model runs the same code with a short warm-up so that
\* every panel of up to MaxDates dates can be enumerated.
start == 3
\* Largest number of distinct dates of a panel given to the turbulence code.
MaxDates == 6

\* config.TECHNICAL_INDICATORS_LIST (line 39): the names are configuration.
tech_indicator_list == <<"macd", "rsi">>
Indicators == {tech_indicator_list[k] : k \in 1..Len(tech_indicator_list)}

----------------------------------------------------------------------------
\* Cells

NaN == [k |-> "nan", n |-> 0, d |-> 1]
None == [k |-> "none", n |-> 0, d |-> 1]
Num(x) == [k |-> "num", n |-> x, d |-> 1]
Zero == Num(0)

Abs(x) == IF x < 0 THEN -x ELSE x

RECURSIVE GCD(_, _)
GCD(a, b) == IF b = 0 THEN a ELSE GCD(b, a % b)

\* The rational n/d (d # 0) in lowest terms with a positive denominator.
Rat(n, d) ==
    LET g == GCD(Abs(n), Abs(d))
        s == IF d < 0 THEN -1 ELSE 1
    IN  [k |-> "num", n |-> (s * n) \div g, d |-> (s * d) \div g]

IsNum(c) == c.k = "num"
IsNaN(c) == c.k = "nan"
Positive(c) == IsNum(c) /\ c.n > 0

----------------------------------------------------------------------------
\* Sequences and sets

Range(s) == {s[k] : k \in 1..Len(s)}

RECURSIVE SumOver(_, _)
SumOver(S, f) ==
    IF S = {} THEN 0
    ELSE LET x == CHOOSE y \in S : TRUE IN f[x] + SumOver(S \ {x}, f)

RECURSIVE SortedSeq(_)
\* The elements of a set of integers in ascending order.
SortedSeq(S) ==
    IF S = {} THEN <<>>
    ELSE LET m == CHOOSE x \in S : \A y \in S : x <= y
         IN  <<m>> \o SortedSeq(S \ {m})

RECURSIVE Perms(_)
\* All orders of the elements of a set.
Perms(S) ==
    IF S = {} THEN {<<>>}
    ELSE UNION {{<<x>> \o p : p \in Perms(S \ {x})} : x \in S}

RECURSIVE unique(_)
\* pandas Series.unique(): the distinct values in order of first appearance.
unique(s) ==
    IF s = <<>> THEN <<>>
    ELSE LET r == unique(SubSeq(s, 1, Len(s) - 1))
             x == s[Len(s)]
         IN  IF x \in Range(r) THEN r ELSE Append(r, x)

Column(t, f) == [k \in 1..Len(t) |-> t[k][f]]

RECURSIVE Concat(_)
Concat(ss) == IF ss = <<>> THEN <<>> ELSE Head(ss) \o Concat(Tail(ss))

----------------------------------------------------------------------------
\* __get_type_list

ValueErrorFeature == "ValueError: feature number could not be"
ValueErrorLength == "ValueError: arrays must all be same length"
ValueErrorItems == "ValueError: Wrong number of items passed 0, placement implies 1"
LinAlgError == "LinAlgError: Singular matrix"

\* Variant: the list of 3 repeated for 4.
get_type_list_m(feature_number) ==
    IF feature_number = 1 THEN [ok |-> TRUE, type_list |-> <<"close">>]
    ELSE IF feature_number = 2 THEN [ok |-> TRUE, type_list |-> <<"close", "volume">>]
    ELSE IF feature_number = 3 THEN [ok |-> TRUE, type_list |-> <<"close", "high", "low">>]
    ELSE IF feature_number = 4 THEN [ok |-> TRUE, type_list |-> <<"close", "high", "low">>]
    ELSE IF feature_number = 5
        THEN [ok |-> TRUE, type_list |-> <<"close", "high", "low", "open", "volume">>]
    ELSE [ok |-> FALSE, type_list |-> <<>>]

get_type_list(feature_number) ==
    IF feature_number = 1 THEN [ok |-> TRUE, type_list |-> <<"close">>]
    ELSE IF feature_number = 2 THEN [ok |-> TRUE, type_list |-> <<"close", "volume">>]
    ELSE IF feature_number = 3 THEN [ok |-> TRUE, type_list |-> <<"close", "high", "low">>]
    ELSE IF feature_number = 4
        THEN [ok |-> TRUE, type_list |-> <<"close", "high", "low", "open">>]
    ELSE IF feature_number = 5
        THEN [ok |-> TRUE, type_list |-> <<"close", "high", "low", "open", "volume">>]
    ELSE [ok |-> FALSE, type_list |-> <<>>]

----------------------------------------------------------------------------
\* __add_technical_indicator

\* The indicator engine (stockstats) on one ticker's rows: one value per row,
\* in the rows' order.  The engine is external; its value for ticker t at
\* date d is the token 10*t + d, so that a value on a wrong row is visible.
EngineValue(t, dt) == Num(10 * t + dt)
Engine(sub, indicator) == [k \in 1..Len(sub) |-> EngineValue(sub[k].tic, sub[k].date)]

RowsOf(t, data) == SelectSeq(data, LAMBDA r : r.tic = t)

\* Variant: the tickers in the reverse of that order.
TickerOrder_m(data) ==
    LET u == unique(Column(data, "tic")) IN [k \in 1..Len(u) |-> u[Len(u) + 1 - k]]

\* line 77: the tickers in order of first appearance.
TickerOrder(data) == unique(Column(data, "tic"))

\* lines 80-87: the engine's results of the tickers it does not fail on,
\* appended in ticker order with a fresh 0-based index.
IndicatorDf(data, indicator, failing) ==
    LET unique_ticker == TickerOrder(data)
    IN  Concat([j \in 1..Len(unique_ticker) |->
            IF <<unique_ticker[j], indicator>> \in failing THEN <<>>
            ELSE Engine(RowsOf(unique_ticker[j], data), indicator)])

\* line 88: df[indicator] = indicator_df aligns on the index labels.
AssignColumn(data, indicator, indicator_df) ==
    [k \in 1..Len(data) |->
        [data[k] EXCEPT !.ind = [@ EXCEPT ![indicator] =
            IF data[k].idx >= 0 /\ data[k].idx < Len(indicator_df)
            THEN indicator_df[data[k].idx + 1] ELSE NaN]]]

RECURSIVE AddIndicators(_, _, _, _)
\* lines 79-89 for the indicators from position j on: every indicator is
\* computed from stock, the copy taken at line 76.  An empty indicator_df
\* has no column to assign: the assignment raises.
AddIndicators(data, stock, j, failing) ==
    IF j > Len(tech_indicator_list) THEN [ok |-> TRUE, df |-> data]
    ELSE LET indicator == tech_indicator_list[j]
             indicator_df == IndicatorDf(stock, indicator, failing)
         IN  IF indicator_df = <<>> THEN [ok |-> FALSE, df |-> data]
             ELSE AddIndicators(AssignColumn(data, indicator, indicator_df),
                                stock, j + 1, failing)

add_technical_indicator(data, failing) == AddIndicators(data, data, 1, failing)

----------------------------------------------------------------------------
\* __calcualte_turbulence

Dates(data) == Range(Column(data, "date"))
Tics(data) == Range(Column(data, "tic"))

\* line 130: df.pivot(index='date', columns='tic', values='close').  The
\* index is the distinct dates in ascending order.
PivotIndex(data) == SortedSeq(Dates(data))
PivotValue(data, dt, t) ==
    data[CHOOSE k \in 1..Len(data) : data[k].date = dt /\ data[k].tic = t].close.n

\* lines 140-142 on exact rationals, for one or two tickers.  hist is the set
\* of history dates, n its size, S the column sums, K = n*Q - S*S' (n(n-1)
\* times the covariance), D = n*current - S (n times the centred vector):
\* temp = ((n-1)/n) * D' * inverse(K) * D, and a singular K raises.
RawScore(data, cur, hist) ==
    LET n == Cardinality(hist)
        tics == SortedSeq(Tics(data))
        S(a) == SumOver(hist, [dt \in hist |-> PivotValue(data, dt, a)])
        Q(a, b) == SumOver(hist,
                     [dt \in hist |-> PivotValue(data, dt, a) * PivotValue(data, dt, b)])
        K(a, b) == n * Q(a, b) - S(a) * S(b)
        D(a) == n * PivotValue(data, cur, a) - S(a)
    IN  IF Len(tics) = 1
        THEN LET a == tics[1]
             IN  IF K(a, a) = 0 THEN [ok |-> FALSE, temp |-> NaN]
                 ELSE [ok |-> TRUE,
                       temp |-> Rat((n - 1) * D(a) * D(a), n * K(a, a))]
        ELSE LET a == tics[1]
                 b == tics[2]
                 det == K(a, a) * K(b, b) - K(a, b) * K(a, b)
                 q == D(a) * D(a) * K(b, b) - 2 * D(a) * D(b) * K(a, b)
                        + D(b) * D(b) * K(a, a)
             IN  IF det = 0 THEN [ok |-> FALSE, temp |-> NaN]
                 ELSE [ok |-> TRUE, temp |-> Rat((n - 1) * q, n * det)]

\* line 138: the pivot row of the date at position i (0-based) of unique_date.
CurrentDate(udates, i) == udates[i + 1]
\* line 139: the pivot rows of the dates unique_date[0:i].
HistDates(udates, i) == {udates[j] : j \in 1..i}

\* lines 143-151: the count after this score, and the value appended.
NewCount(temp, cnt) == IF Positive(temp) THEN cnt + 1 ELSE cnt

\* Variant: the raw score already from the second counted date.
Guarded_m(temp, cnt) ==
    IF Positive(temp) THEN (IF cnt + 1 >= 2 THEN temp ELSE Zero) ELSE Zero

Guarded(temp, cnt) ==
    IF Positive(temp) THEN (IF cnt + 1 > 2 THEN temp ELSE Zero) ELSE Zero

\* Variant: a warm-up of missing values.
WarmUp_m == [j \in 1..start |-> NaN]

\* line 134
WarmUp == [j \in 1..start |-> Zero]

\* lines 155-156: pandas pairs the two columns by position and refuses
\* columns of different lengths.
SeriesFrame(index, values) ==
    IF Len(index) # Len(values) THEN [ok |-> FALSE, frame |-> <<>>]
    ELSE [ok |-> TRUE,
          frame |-> [k \in 1..Len(index) |-> [date |-> index[k], turbulence |-> values[k]]]]

----------------------------------------------------------------------------
\* __add_turbulence

RECURSIVE MergeOnDate(_, _)
\* line 101: inner join on date, in the order of the left table's rows, with
\* a fresh 0-based index.
MergeOnDate(data, frame) ==
    IF data = <<>> THEN <<>>
    ELSE LET r == Head(data)
             m == SelectSeq(frame, LAMBDA e : e.date = r.date)
         IN  [k \in 1..Len(m) |-> [r EXCEPT !.turbulence = m[k].turbulence]]
             \o MergeOnDate(Tail(data), frame)

Reindex(t) == [k \in 1..Len(t) |-> [t[k] EXCEPT !.idx = k - 1]]

\* Variant: the order of sort_values(['tic','date']).
KeyLeq_m(r1, r2) == r1.tic < r2.tic \/ (r1.tic = r2.tic /\ r1.date <= r2.date)

\* the order of sort_values(['date','tic'])
KeyLeq(r1, r2) == r1.date < r2.date \/ (r1.date = r2.date /\ r1.tic <= r2.tic)

RECURSIVE SortRows(_)
\* line 102: sort_values(['date','tic']).
SortRows(t) ==
    IF t = <<>> THEN <<>>
    ELSE LET m == CHOOSE k \in 1..Len(t) :
                    /\ \A j \in 1..Len(t) : KeyLeq(t[k], t[j])
                    /\ \A j \in 1..(k - 1) : ~KeyLeq(t[j], t[k])
         IN  <<t[m]>> \o SortRows(SubSeq(t, 1, m - 1) \o SubSeq(t, m + 1, Len(t)))

\* lines 101-102
merge_sort_reset(data, frame) == Reindex(SortRows(Reindex(MergeOnDate(data, frame))))

----------------------------------------------------------------------------
\* fillna (line 64)

\* bfill: a missing cell takes the next valid value below it, if there is one.
Bfill(col) ==
    [k \in 1..Len(col) |->
        IF ~IsNaN(col[k]) THEN col[k]
        ELSE IF \E j \in (k + 1)..Len(col) : ~IsNaN(col[j])
             THEN col[CHOOSE j \in (k + 1)..Len(col) :
                        ~IsNaN(col[j]) /\ \A h \in (k + 1)..(j - 1) : IsNaN(col[h])]
             ELSE NaN]

\* ffill: a missing cell takes the last valid value above it, if there is one.
Ffill(col) ==
    [k \in 1..Len(col) |->
        IF ~IsNaN(col[k]) THEN col[k]
        ELSE IF \E j \in 1..(k - 1) : ~IsNaN(col[j])
             THEN col[CHOOSE j \in 1..(k - 1) :
                        ~IsNaN(col[j]) /\ \A h \in (j + 1)..(k - 1) : IsNaN(col[h])]
             ELSE NaN]

\* Variant: the backward fill alone.
FillColumn_m(col) == Bfill(col)

\* fillna(method='bfill').fillna(method='ffill') on one column
FillColumn(col) == Ffill(Bfill(col))

\* The value columns of a table: close, one per indicator, turbulence.
ValueColumns == {<<"close">>, <<"turbulence">>} \cup {<<"ind", x>> : x \in Indicators}
Cell(r, c) == IF c[1] = "ind" THEN r.ind[c[2]] ELSE r[c[1]]
ColumnOf(t, c) == [k \in 1..Len(t) |-> Cell(t[k], c)]

fillna(t) ==
    LET close == FillColumn(ColumnOf(t, <<"close">>))
        turb == FillColumn(ColumnOf(t, <<"turbulence">>))
        ind == [x \in Indicators |-> FillColumn(ColumnOf(t, <<"ind", x>>))]
    IN  [k \in 1..Len(t) |->
            [t[k] EXCEPT !.close = close[k], !.turbulence = turb[k],
                         !.ind = [x \in Indicators |-> ind[x][k]]]]

----------------------------------------------------------------------------
\* State

VARIABLES
    pc,                      \* where the caller is: "new", "constructed", ...
    err,                     \* the exception that ended the run, or ""
    feature_number,          \* self.feature_number
    use_technical_indicator, \* self.use_technical_indicator
    use_turbulence,          \* self.use_turbulence
    features,                \* self.__features
    df,                      \* self.df
    fails,                   \* the <<ticker, indicator>> pairs the engine raises on
    out,                     \* preprocess_data's local df
    unique_date,             \* __calcualte_turbulence: unique_date
    turbulence_index,        \* __calcualte_turbulence: the list turbulence_index
    count,                   \* __calcualte_turbulence: count
    i,                       \* __calcualte_turbulence: the loop index (0-based)
    turbulence,              \* the frame __calcualte_turbulence returns
    unfilled                 \* out as it was just before line 64

vars == <<pc, err, feature_number, use_technical_indicator, use_turbulence, features,
          df, fails, out, unique_date, turbulence_index, count, i, turbulence, unfilled>>

Row(x, t, dt, c) ==
    [idx |-> x, tic |-> t, date |-> dt, close |-> c,
     ind |-> [n \in Indicators |-> None], turbulence |-> None]

----------------------------------------------------------------------------
\* Panels

PriceVectors(nt) ==
    IF nt = 1 THEN {<<0>>, <<1>>, <<2>>} ELSE {<<0, 0>>, <<1, 0>>, <<0, 1>>}

\* Orders in which the dates of a panel first appear in its rows: ascending,
\* descending, and ascending with two neighbouring dates exchanged, either
\* the last two or the two around the end of the warm-up.
DateOrders(nd) ==
    {[k \in 1..nd |-> k], [k \in 1..nd |-> nd + 1 - k]} \cup
    {[k \in 1..nd |-> IF k = j THEN j + 1 ELSE IF k = j + 1 THEN j ELSE k] :
        j \in {start, nd - 1} \cap 1..(nd - 1)}

\* The dense panel of nt tickers and nd dates with close prices vec[date][tic],
\* its rows grouped by date in the given order and numbered from 0.
DatePanel(nt, nd, vec, order) ==
    [k \in 1..(nt * nd) |->
        LET dt == order[((k - 1) \div nt) + 1]
            t == ((k - 1) % nt) + 1
        IN  Row(k - 1, t, dt, Num(vec[dt][t]))]

\* A panel of the given tickers and dates in any row order, with index
\* labels base, base+1, ... and close prices that may be missing.
AnyPanels(nt, nd, base) ==
    LET keys == (1..nt) \X (1..nd)
    IN  {[k \in 1..Len(p) |-> Row(base + k - 1, p[k][1], p[k][2], c[p[k]])] :
            <<p, c>> \in Perms(keys) \X [keys -> {NaN, Num(1)}]}

Fresh ==
    /\ pc = "new"
    /\ err = ""
    /\ features = <<>>
    /\ out = <<>>
    /\ unique_date = <<>>
    /\ turbulence_index = <<>>
    /\ count = 0
    /\ i = 0
    /\ turbulence = <<>>
    /\ unfilled = <<>>

\* Every configuration, on single-ticker panels in ascending date order that
\* are shorter or longer than the warm-up.
InitConfig ==
    /\ Fresh
    /\ feature_number \in -1..7
    /\ use_technical_indicator \in BOOLEAN
    /\ use_turbulence \in BOOLEAN
    /\ fails = {}
    /\ \E nd \in {start - 1, start + 1} : \E vec \in [1..nd -> PriceVectors(1)] :
          df = DatePanel(1, nd, vec, [k \in 1..nd |-> k])

\* Turbulence alone, on dense panels of one or two tickers.
InitTurb ==
    /\ Fresh
    /\ feature_number = 5
    /\ use_technical_indicator = FALSE
    /\ use_turbulence = TRUE
    /\ fails = {}
    /\ \E nt \in 1..2 : \E nd \in 1..MaxDates :
          \E vec \in [1..nd -> PriceVectors(nt)] : \E order \in DateOrders(nd) :
              df = DatePanel(nt, nd, vec, order)

\* Indicators and imputation, on panels in any row order.
InitInd ==
    /\ Fresh
    /\ feature_number = 5
    /\ use_technical_indicator \in BOOLEAN
    /\ use_turbulence = FALSE
    /\ fails \in SUBSET ((1..2) \X Indicators)
    /\ \E nt \in 1..2 : \E nd \in 1..2 : \E base \in 0..1 :
          df \in AnyPanels(nt, nd, base)

----------------------------------------------------------------------------
\* Operations

\* __init__ (lines 33-40)
Construct ==
    /\ pc = "new"
    /\ LET r == get_type_list(feature_number)
       IN  IF r.ok
           THEN /\ features' = r.type_list
                /\ pc' = "constructed"
                /\ err' = err
           ELSE /\ features' = features
                /\ pc' = "raised"
                /\ err' = ValueErrorFeature
    /\ UNCHANGED <<feature_number, use_technical_indicator, use_turbulence, df, fails,
                   out, unique_date, turbulence_index, count, i, turbulence, unfilled>>

\* Variant: the gate opened one feature count early.
IndicatorGate_m(use, number) == use = TRUE /\ number >= 4

\* line 52
IndicatorGate(use, number) == use = TRUE /\ number >= 5

\* preprocess_data, lines 48-58: the copy, the indicator stage and the
\* choice of the next stage.
PreprocessIndicators ==
    /\ pc = "constructed"
    /\ LET r == IF IndicatorGate(use_technical_indicator, feature_number)
                THEN add_technical_indicator(df, fails)
                ELSE [ok |-> TRUE, df |-> df]
       IN  IF r.ok
           THEN /\ out' = r.df
                /\ pc' = IF use_turbulence = TRUE THEN "calcualte_turbulence" ELSE "fillna"
                /\ err' = err
           ELSE /\ out' = out
                /\ pc' = "raised"
                /\ err' = ValueErrorItems
    /\ UNCHANGED <<feature_number, use_technical_indicator, use_turbulence, features, df,
                   fails, unique_date, turbulence_index, count, i, turbulence, unfilled>>

\* __calcualte_turbulence, lines 129-136
TurbulenceBegin ==
    /\ pc = "calcualte_turbulence"
    /\ unique_date' = unique(Column(out, "date"))
    /\ turbulence_index' = WarmUp
    /\ count' = 0
    /\ i' = start
    /\ pc' = "loop"
    /\ UNCHANGED <<err, feature_number, use_technical_indicator, use_turbulence, features,
                   df, fails, out, turbulence, unfilled>>

\* __calcualte_turbulence, one iteration of the loop (lines 137-152)
TurbulenceStep ==
    /\ pc = "loop"
    /\ i < Len(unique_date)
    /\ LET r == RawScore(out, CurrentDate(unique_date, i), HistDates(unique_date, i))
       IN  IF r.ok
           THEN /\ count' = NewCount(r.temp, count)
                /\ turbulence_index' = Append(turbulence_index, Guarded(r.temp, count))
                /\ i' = i + 1
                /\ pc' = pc
                /\ err' = err
           ELSE /\ pc' = "raised"
                /\ err' = LinAlgError
                /\ UNCHANGED <<count, turbulence_index, i>>
    /\ UNCHANGED <<feature_number, use_technical_indicator, use_turbulence, features,
                   df, fails, out, unique_date, turbulence, unfilled>>

\* __calcualte_turbulence, lines 155-157
TurbulenceEnd ==
    /\ pc = "loop"
    /\ i >= Len(unique_date)
    /\ LET r == SeriesFrame(PivotIndex(out), turbulence_index)
       IN  IF r.ok
           THEN /\ turbulence' = r.frame
                /\ pc' = "merge"
                /\ err' = err
           ELSE /\ turbulence' = turbulence
                /\ pc' = "raised"
                /\ err' = ValueErrorLength
    /\ UNCHANGED <<feature_number, use_technical_indicator, use_turbulence, features,
                   df, fails, out, unique_date, turbulence_index, count, i, unfilled>>

\* __add_turbulence, lines 101-103
AddTurbulence ==
    /\ pc = "merge"
    /\ out' = merge_sort_reset(out, turbulence)
    /\ pc' = "fillna"
    /\ UNCHANGED <<err, feature_number, use_technical_indicator, use_turbulence, features,
                   df, fails, unique_date, turbulence_index, count, i, turbulence,
                   unfilled>>

\* preprocess_data, lines 64-65
Fillna ==
    /\ pc = "fillna"
    /\ unfilled' = out
    /\ out' = fillna(out)
    /\ pc' = "done"
    /\ UNCHANGED <<err, feature_number, use_technical_indicator, use_turbulence, features,
                   df, fails, unique_date, turbulence_index, count, i, turbulence>>

Next ==
    \/ Construct
    \/ PreprocessIndicators
    \/ TurbulenceBegin
    \/ TurbulenceStep
    \/ TurbulenceEnd
    \/ AddTurbulence
    \/ Fillna

NextInd ==
    \/ Construct
    \/ PreprocessIndicators
    \/ Fillna

Spec == InitConfig /\ [][Next]_vars
SpecTurb == InitTurb /\ [][Next]_vars
SpecInd == InitInd /\ [][NextInd]_vars

----------------------------------------------------------------------------
\* Properties

NumDates == Cardinality(Dates(df))
Started == pc \notin {"new", "constructed"}
Returned == pc \in {"merge", "fillna", "done"}

\* The field lists of the documentation, by feature count.
DocumentedFields(n) ==
    CASE n = 1 -> <<"close">>
      [] n = 2 -> <<"close", "volume">>
      [] n = 3 -> <<"close", "high", "low">>
      [] n = 4 -> <<"close", "high", "low", "open">>
      [] n = 5 -> <<"close", "high", "low", "open", "volume">>

NoDuplicates(s) == \A a, b \in 1..Len(s) : s[a] = s[b] => a = b

\* C1: once the constructor has run, a feature count of 1..5 has selected
\* exactly the documented list, without duplicates, and the object exists;
\* any other count has raised the feature-number error and selected nothing.
C1_FieldSelection ==
    pc # "new" =>
        IF feature_number \in 1..5
        THEN /\ features = DocumentedFields(feature_number)
             /\ NoDuplicates(features)
             /\ err # ValueErrorFeature
        ELSE /\ pc = "raised"
             /\ err = ValueErrorFeature
             /\ features = <<>>

C1_Witness ==
    /\ pc = "constructed"
    /\ feature_number = 4
    /\ features = <<"close", "high", "low", "open">>

IndicatorFree(t) == \A k \in 1..Len(t) : \A x \in Indicators : t[k].ind[x] = None

\* C7, as claimed: with indicators enabled and a feature count of 1..4,
\* preprocess_data refuses to run with the invalid-configuration error.
C7_RefusesToRun ==
    (use_technical_indicator /\ feature_number \in 1..4 /\ Started)
        => (pc = "raised" /\ err = ValueErrorFeature)

\* C7, amended: with indicators enabled and a feature count of 1..4,
\* preprocess_data raises no invalid-configuration error; it skips the
\* indicator stage, so the table it processes and returns has no indicator
\* column.
C7_SkipsIndicators ==
    (use_technical_indicator /\ feature_number \in 1..4 /\ Started)
        => /\ err # ValueErrorFeature
           /\ err # ValueErrorItems
           /\ IndicatorFree(out)
           /\ (pc = "done" => Len(out) = Len(df))

C7_Witness ==
    /\ pc = "done"
    /\ use_technical_indicator
    /\ feature_number = 4
    /\ Len(out) > 0
    /\ IndicatorFree(out)

\* The series of zeros over the ascending dates of the panel.
ZeroSeries == 
    LET index == SortedSeq(Dates(df))
    IN  [k \in 1..Len(index) |-> [date |-> index[k], turbulence |-> Zero]]

\* C2: on a panel with fewer dates than the warm-up the turbulence
\* computation does not raise, and what it returns is one entry per distinct
\* date, each with turbulence 0.
C2_ShortPanel ==
    (use_turbulence /\ NumDates < start)
        => /\ pc # "raised"
           /\ (Returned => turbulence = ZeroSeries)

RECURSIVE RunLoop(_, _, _, _, _)
\* The loop of lines 137-152 over a given order of the dates.
RunLoop(data, udates, j, cnt, acc) ==
    IF j >= Len(udates) THEN [ok |-> TRUE, values |-> acc]
    ELSE LET r == RawScore(data, CurrentDate(udates, j), HistDates(udates, j))
         IN  IF ~r.ok THEN [ok |-> FALSE, values |-> acc]
             ELSE RunLoop(data, udates, j + 1, NewCount(r.temp, cnt),
                          Append(acc, Guarded(r.temp, cnt)))

\* C3: on a panel with more dates than the warm-up, in whatever row order,
\* the returned series lists the dates in ascending order, and from the end
\* of the warm-up on the value of a date is the one the loop computes with
\* that date as current and exactly the earlier dates as history.
C3_HistoryByDate ==
    (Returned /\ NumDates >= start + 1)
        => LET index == SortedSeq(Dates(df))
               r == RunLoop(df, index, start, 0, WarmUp)
           IN  /\ Len(turbulence) = Len(index)
               /\ \A k \in 1..Len(index) : turbulence[k].date = index[k]
               /\ r.ok => \A k \in (start + 1)..Len(index) :
                              turbulence[k].turbulence = r.values[k]

\* The raw score of the date processed at (1-based) position k.
RawAt(k) == RawScore(df, unique_date[k], {unique_date[h] : h \in 1..(k - 1)}).temp

\* C5: of the dates processed after the warm-up, those with a raw score > 0
\* are counted; the first and second of them get 0, the third and later get
\* their raw score, and a date with a raw score <= 0 gets 0 and is not counted.
C5_OutlierGuard ==
    (pc \in {"loop", "merge"})
        => LET processed == (start + 1)..Len(turbulence_index)
               raw == [k \in processed |-> RawAt(k)]
               positives(k) == Cardinality({j \in processed : j <= k /\ Positive(raw[j])})
           IN  /\ \A k \in processed :
                      turbulence_index[k] =
                          IF Positive(raw[k]) /\ positives(k) >= 3 THEN raw[k] ELSE Zero
               /\ count = positives(Len(turbulence_index))

C5_Witness ==
    /\ pc = "merge"
    /\ count >= 3
    /\ Len(turbulence_index) = start + 3
    /\ turbulence_index[start + 1] = Zero
    /\ turbulence_index[start + 2] = Zero
    /\ Positive(turbulence_index[start + 3])

\* C8: in the series returned for a panel with more dates than the warm-up,
\* every date with fewer than start dates before it has turbulence 0.
C8_WarmUp ==
    (Returned /\ NumDates >= start + 1)
        => /\ \A dt \in Dates(df) : \E k \in 1..Len(turbulence) : turbulence[k].date = dt
           /\ \A k \in 1..Len(turbulence) :
                  Cardinality({dt \in Dates(df) : dt < turbulence[k].date}) < start
                      => turbulence[k].turbulence = Zero

C8_Witness ==
    /\ pc = "merge"
    /\ NumDates = start + 3
    /\ \A k \in 1..start : turbulence[k] = [date |-> k, turbulence |-> Zero]
    /\ Positive(turbulence[start + 3].turbulence)

Keys(t) == {<<t[k].tic, t[k].date>> : k \in 1..Len(t)}

\* C9: the table __add_turbulence returns for a panel with more dates than
\* the warm-up has one row per (ticker, date) pair of the input, each with the
\* turbulence of the series entry of its date, in ascending (date, ticker)
\* order and numbered from 0.
C9_Broadcast ==
    (pc \in {"fillna", "done"} /\ use_turbulence /\ NumDates >= start + 1)
        => LET t == IF pc = "done" THEN unfilled ELSE out
           IN  /\ Len(t) = Cardinality(Keys(df))
               /\ Keys(t) = Keys(df)
               /\ \A k \in 1..Len(t) : \A e \in Range(turbulence) :
                      e.date = t[k].date => t[k].turbulence = e.turbulence
               /\ \A k \in 1..Len(t) : \E e \in Range(turbulence) : e.date = t[k].date
               /\ \A a, b \in 1..Len(t) :
                      t[a].date = t[b].date => t[a].turbulence = t[b].turbulence
               /\ \A k \in 1..Len(t) : t[k].idx = k - 1
               /\ \A k \in 1..(Len(t) - 1) :
                      \/ t[k].date < t[k + 1].date
                      \/ (t[k].date = t[k + 1].date /\ t[k].tic < t[k + 1].tic)

C9_Witness ==
    /\ pc = "fillna"
    /\ Cardinality(Tics(df)) = 2
    /\ df[1].date > df[Len(df)].date
    /\ Len(out) = Len(df)
    /\ \E k \in 1..(Len(out) - 1) :
          /\ out[k].date = out[k + 1].date
          /\ Positive(out[k].turbulence)
          /\ out[k + 1].turbulence = out[k].turbulence

\* The panel is sorted by ticker, then by date, and numbered from 0.
TickerSorted(t) ==
    /\ \A k \in 1..Len(t) : t[k].idx = k - 1
    /\ \A k \in 1..(Len(t) - 1) :
          \/ t[k].tic < t[k + 1].tic
          \/ (t[k].tic = t[k + 1].tic /\ t[k].date < t[k + 1].date)

FailingTickers(x) == {t \in Tics(df) : <<t, x>> \in fails}
IndicatorsOn == IndicatorGate(use_technical_indicator, feature_number)

\* The table as __add_technical_indicator left it is in out until the
\* turbulence merge or the imputation replaces it.
HasIndicatorTable ==
    \/ pc \in {"calcualte_turbulence", "loop", "merge"}
    \/ (pc \in {"fillna", "done"} /\ ~use_turbulence)
IndicatorTable == IF pc = "done" THEN unfilled ELSE out

\* C4: when the engine fails for one ticker of a multi-ticker panel (sorted
\* by ticker and date), the pipeline does not abort, and before imputation
\* that indicator's column is missing on that ticker's rows and holds the
\* engine's value for the row's own ticker and date on every other row.
C4_FailureIsolation ==
    \A x \in Indicators : \A t \in Tics(df) :
        (/\ IndicatorsOn
         /\ Started
         /\ TickerSorted(df)
         /\ Cardinality(Tics(df)) >= 2
         /\ \A y \in Indicators : FailingTickers(y) = IF y = x THEN {t} ELSE {})
            => /\ err # ValueErrorItems
               /\ HasIndicatorTable =>
                    \A k \in 1..Len(IndicatorTable) :
                        IndicatorTable[k].ind[x] =
                            IF IndicatorTable[k].tic = t THEN NaN
                            ELSE EngineValue(IndicatorTable[k].tic, IndicatorTable[k].date)

\* C6: for a non-empty panel sorted by ticker then date and numbered from
\* 0, with the engine succeeding on every ticker, each indicator column has
\* one value per panel row: the engine's value for the row's own ticker and
\* date.
C6_Alignment ==
    (/\ IndicatorsOn
     /\ Started
     /\ TickerSorted(df)
     /\ \A x \in Indicators : FailingTickers(x) = {})
        => /\ err # ValueErrorItems
           /\ HasIndicatorTable =>
                /\ Len(IndicatorTable) = Len(df)
                /\ \A k \in 1..Len(df) :
                      /\ IndicatorTable[k].tic = df[k].tic
                      /\ IndicatorTable[k].date = df[k].date
                      /\ \A x \in Indicators :
                            IndicatorTable[k].ind[x] = EngineValue(df[k].tic, df[k].date)

C6_Witness ==
    /\ pc = "fillna"
    /\ IndicatorsOn
    /\ TickerSorted(df)
    /\ Len(df) = 4
    /\ fails = {}
    /\ \A k \in 1..4 : out[k].ind["rsi"] = EngineValue(df[k].tic, df[k].date)
    /\ out[3].tic = 2

\* C10: in the table preprocess_data returns, a column that had a
\* non-missing value before the imputation has no missing cell, and every
\* cell that was not missing keeps its value; the rows are the same rows.
C10_Imputation ==
    pc = "done" =>
        /\ Len(out) = Len(unfilled)
        /\ \A k \in 1..Len(out) :
              /\ out[k].idx = unfilled[k].idx
              /\ out[k].tic = unfilled[k].tic
              /\ out[k].date = unfilled[k].date
        /\ \A c \in ValueColumns :
              /\ (\E k \in 1..Len(unfilled) : ~IsNaN(Cell(unfilled[k], c)))
                    => \A k \in 1..Len(out) : ~IsNaN(Cell(out[k], c))
              /\ \A k \in 1..Len(out) :
                    ~IsNaN(Cell(unfilled[k], c)) => Cell(out[k], c) = Cell(unfilled[k], c)

\* A column with a gap at its end, one inside and one at its start is filled.
C10_Witness ==
    /\ pc = "done"
    /\ Len(out) = 4
    /\ IsNaN(unfilled[1].close)
    /\ ~IsNaN(unfilled[2].close)
    /\ IsNaN(unfilled[3].ind["macd"])
    /\ IsNaN(unfilled[4].ind["macd"])
    /\ ~IsNaN(unfilled[2].ind["macd"])
    /\ \A k \in 1..4 : ~IsNaN(out[k].close) /\ ~IsNaN(out[k].ind["macd"])

====
